---- MODULE Spec2Model ----
(***************************************************************************)
(* Model of the rate limiter of src/connection.py (class APIRateMeter).    *)
(*                                                                         *)
(* Time is counted in whole seconds: datetime values are integers and      *)
(* timedelta values are (possibly negative) integers.  The class-level     *)
(* dictionary _tracked_keys is the variable tracked; the Python list       *)
(* objects it refers to live in heap, because several callers can hold a   *)
(* reference to the same list object while the dictionary is re-pointed to *)
(* another one.                                                            *)
(***************************************************************************)
EXTENDS Integers, Sequences, FiniteSets, TLC

\* ------------------------------------------------------------------ bounds
NumKeys == 2
NumThreads == 2
MaxTime == 3
MaxAccess == 3
\* the same two for the concurrent callers
ConcMaxTime == 1
ConcMaxAccess == 2

Keys == 1..NumKeys
Threads == 1..NumThreads
\* one list per tracked key plus one per caller, and one being allocated
ListIds == 1..(NumKeys + NumThreads + 1)

VARIABLES
    now,        \* the clock read by datetime.now()
    tracked,    \* APIRateMeter._tracked_keys: key -> entry (or Untracked)
    heap,       \* list objects: id -> sequence of timestamps
    pc,         \* position of each caller
    loc,        \* local variables of each caller's call in progress
    nacc,       \* number of access() calls begun
    recorded    \* per key, the timestamps appended by completed access() calls

vars == <<now, tracked, heap, pc, loc, nacc, recorded>>

\* ------------------------------------------------------------- rate values
\* An element of a rates sequence as Python sees it: its shape (a 2-tuple, a
\* 1-tuple or an empty tuple) and the types and values of its first two items.
Rate(l, w) == [shape |-> "pair", t0 |-> "int", limit |-> l, t1 |-> "timedelta", window |-> w]
StrLimit == [shape |-> "pair", t0 |-> "str", limit |-> 0, t1 |-> "timedelta", window |-> 1]
IntWindow == [shape |-> "pair", t0 |-> "int", limit |-> 1, t1 |-> "int", window |-> 1]
OneTuple == [shape |-> "one", t0 |-> "int", limit |-> 1, t1 |-> "none", window |-> 0]
EmptyTuple == [shape |-> "empty", t0 |-> "none", limit |-> 0, t1 |-> "none", window |-> 0]

DefaultLimitShort == 10
DefaultWindowShort == 10
DefaultLimitLong == 500
DefaultWindowLong == 600
default_rate == <<Rate(DefaultLimitShort, DefaultWindowShort), Rate(DefaultLimitLong, DefaultWindowLong)>>

\* "rates=None" (and any falsy rates) is the empty sequence
NoRates == <<>>

Untracked == [rules |-> <<>>, maxdelta |-> 0, requestTimestamps |-> 0]
IsTracked(k) == tracked[k] # Untracked

NoLoc == [op |-> "none", key |-> 0, rates |-> <<>>, blocking |-> FALSE, clean |-> FALSE,
          ref |-> 0, maxdelta |-> 0, tnow |-> 0, entry |-> Untracked,
          exc |-> "none", ret |-> TRUE,
          get |-> FALSE, ratelimited |-> FALSE, mark |-> 0]

\* ---------------------------------------------------------- pure functions
RECURSIVE ValidateFrom(_, _)
ValidateFrom(rates, i) ==
    IF i > Len(rates) THEN "ok"
    ELSE LET r == rates[i] IN
         IF r.shape = "empty" THEN "InvalidRates"        \* r[0]: IndexError
         ELSE IF r.t0 # "int" THEN "InvalidRates"
         ELSE IF r.shape = "one" THEN "InvalidRates"     \* r[1]: IndexError
         ELSE IF r.t1 # "timedelta" THEN "InvalidRates"
         ELSE ValidateFrom(rates, i + 1)

\* _validaterates: "ok", or the exception it raises
validaterates(rates) == IF rates # NoRates THEN ValidateFrom(rates, 1) ELSE "ok"

SeqMax(S) == CHOOSE m \in S : \A x \in S : x <= m

\* the shortest window taken for the longest
MaxDelta_Min(rates) ==
    LET S == {rates[i].window : i \in 1..Len(rates)}
    IN  CHOOSE m \in S : \A x \in S : m <= x

\* max(rate[1] for rate in rates)
MaxDelta(rates) == SeqMax({rates[i].window : i \in 1..Len(rates)})

\* len([stamp for stamp in timestamps if stamp - datetime.now() < rate[1]])
callcount(timestamps, t, rate) ==
    Cardinality({i \in 1..Len(timestamps) : timestamps[i] - t < rate.window})

\* check() letting a rule reach its limit before it refuses
checkOn_Strict(rules, timestamps, t) ==
    \A i \in 1..Len(rules) : ~(callcount(timestamps, t, rules[i]) > rules[i].limit)

\* check() counting the access about to be made
checkOn_CountsSelf(rules, timestamps, t) ==
    \A i \in 1..Len(rules) : ~(callcount(timestamps, t, rules[i]) + 1 >= rules[i].limit)

\* check() on given rules and timestamps at instant t
checkOn(rules, timestamps, t) ==
    \A i \in 1..Len(rules) : ~(callcount(timestamps, t, rules[i]) >= rules[i].limit)

\* check() of an instance bound to key k, now
check(k) == checkOn(tracked[k].rules, heap[tracked[k].requestTimestamps], now)

\* a cleanup that drops the oldest entry on every pass
cleanfilter_DropOldest(timestamps, t, maxdelta) ==
    IF Len(timestamps) > 0 THEN Tail(timestamps) ELSE timestamps

\* [ts for ts in timestamps if (ts - datetime.now()) < maxdelta]
cleanfilter(timestamps, t, maxdelta) ==
    SelectSeq(timestamps, LAMBDA ts : (ts - t) < maxdelta)

\* __init__ falling back to the default for a tracked key as well
RatesToStore_AlwaysDefault(istracked, rates) ==
    IF rates = NoRates THEN default_rate ELSE rates

\* What __init__ goes on to validate and store: the given rates, the default
\* for an untracked key without rates, nothing for a tracked key without rates.
RatesToStore(istracked, rates) ==
    IF ~istracked
    THEN (IF rates = NoRates THEN default_rate ELSE rates)
    ELSE rates

\* an update that starts a new history
UpdatedEntry_Reset(old, rates) ==
    [rules |-> rates, maxdelta |-> MaxDelta(rates), requestTimestamps |-> 0]

\* the dictionary entry built for an already tracked key
UpdatedEntry(old, rates) ==
    [rules |-> rates, maxdelta |-> MaxDelta(rates),
     requestTimestamps |-> old.requestTimestamps]

\* the dictionary entry built for a new key, its fresh empty list being id
NewEntry(rates, id) ==
    [rules |-> rates, maxdelta |-> MaxDelta(rates), requestTimestamps |-> id]

\* ------------------------------------------------------------ list objects
Referenced(tr, lc) ==
    {tr[k].requestTimestamps : k \in Keys} \cup {lc[t].ref : t \in Threads}
        \cup {lc[t].entry.requestTimestamps : t \in Threads}

\* every new list is the same object
FreshId_Shared == CHOOSE i \in ListIds : \A j \in ListIds : i <= j

\* the id of a newly created list object
FreshId == CHOOSE i \in ListIds :
              /\ i \notin Referenced(tracked, loc)
              /\ \A j \in ListIds : j < i => j \in Referenced(tracked, loc)

\* list objects nobody refers to any more are freed
Collect(h, tr, lc) ==
    [i \in ListIds |-> IF i \in Referenced(tr, lc) THEN h[i] ELSE <<>>]

\* ------------------------------------------------------------------- Init
InitShared ==
    /\ now = 0
    /\ tracked = [k \in Keys |-> Untracked]
    /\ heap = [i \in ListIds |-> <<>>]
    /\ loc = [t \in Threads |-> NoLoc]
    /\ nacc = 0
    /\ recorded = [k \in Keys |-> <<>>]

\* every caller is ready to call
Init == InitShared /\ pc = [t \in Threads |-> "idle"]

\* a single caller
InitSeq == InitShared /\ pc = [t \in Threads |-> IF t = 1 THEN "idle" ELSE "off"]

\* ---------------------------------------------------------------- actions
\* the clock advances
Tick(limit) ==
    /\ now < limit
    /\ now' = now + 1
    /\ UNCHANGED <<tracked, heap, pc, loc, nacc, recorded>>

\* __init__ assigning the rules of a tracked key before it validates them
InitBegin_StoreFirst(t, k, rates) ==
    /\ pc[t] = "idle"
    /\ LET eff == RatesToStore(IsTracked(k), rates)
           v == validaterates(eff)
           call == [NoLoc EXCEPT !.op = "init", !.key = k, !.rates = rates]
       IN  IF eff = NoRates
           THEN /\ pc' = [pc EXCEPT ![t] = "done"]
                /\ loc' = [loc EXCEPT ![t] = call]
                /\ tracked' = tracked
           ELSE IF v # "ok"
           THEN /\ pc' = [pc EXCEPT ![t] = "done"]
                /\ loc' = [loc EXCEPT ![t] = [call EXCEPT !.exc = v]]
                /\ tracked' = IF IsTracked(k)
                              THEN [tracked EXCEPT ![k].rules = eff]
                              ELSE tracked
           ELSE /\ pc' = [pc EXCEPT ![t] = "init_store"]
                /\ loc' = [loc EXCEPT ![t] =
                        [call EXCEPT !.entry = IF IsTracked(k)
                                     THEN UpdatedEntry(tracked[k], eff)
                                     ELSE NewEntry(eff, 0)]]
                /\ tracked' = tracked
    /\ UNCHANGED <<now, heap, nacc, recorded>>

\* APIRateMeter(k, rates) up to the assignment to _tracked_keys[k]
InitBegin(t, k, rates) ==
    /\ pc[t] = "idle"
    /\ LET eff == RatesToStore(IsTracked(k), rates)
           v == validaterates(eff)
           call == [NoLoc EXCEPT !.op = "init", !.key = k, !.rates = rates]
       IN  IF eff = NoRates
           THEN \* tracked key, no rates: only self.key = apikey
                /\ pc' = [pc EXCEPT ![t] = "done"]
                /\ loc' = [loc EXCEPT ![t] = call]
           ELSE IF v # "ok"
           THEN /\ pc' = [pc EXCEPT ![t] = "done"]
                /\ loc' = [loc EXCEPT ![t] = [call EXCEPT !.exc = v]]
           ELSE /\ pc' = [pc EXCEPT ![t] = "init_store"]
                /\ loc' = [loc EXCEPT ![t] =
                        [call EXCEPT !.entry = IF IsTracked(k)
                                     THEN UpdatedEntry(tracked[k], eff)
                                     ELSE NewEntry(eff, 0)]]
    /\ UNCHANGED <<now, tracked, heap, nacc, recorded>>

\* the assignment _tracked_keys[apikey] = {...}, then self.key = apikey
InitStore(t) ==
    /\ pc[t] = "init_store"
    /\ LET e == loc[t].entry
           lc == [loc EXCEPT ![t] = [@ EXCEPT !.entry = Untracked]]
           tr == [tracked EXCEPT ![loc[t].key] =
                     IF e.requestTimestamps = 0
                     THEN [e EXCEPT !.requestTimestamps = FreshId]
                     ELSE e]
       IN  /\ tracked' = tr
           /\ loc' = lc
           /\ heap' = Collect(heap, tr, lc)
    /\ pc' = [pc EXCEPT ![t] = "done"]
    /\ UNCHANGED <<now, nacc, recorded>>

\* check() called on an instance bound to k
Check(t, k) ==
    /\ pc[t] = "idle"
    /\ IsTracked(k)
    /\ pc' = [pc EXCEPT ![t] = "done"]
    /\ loc' = [loc EXCEPT ![t] = [NoLoc EXCEPT !.op = "check", !.key = k, !.ret = check(k)]]
    /\ UNCHANGED <<now, tracked, heap, nacc, recorded>>

\* where access() goes once it is past the blocking loop
AfterLoop(clean) == IF clean THEN "cl_read" ELSE "acc_ref"

\* access() entering the polling loop whatever blocking is
AccessBegin_AlwaysBlocks(t, k, blocking, clean, cap) ==
    /\ pc[t] = "idle"
    /\ IsTracked(k)
    /\ nacc < cap
    /\ nacc' = nacc + 1
    /\ pc' = [pc EXCEPT ![t] = "acc_check"]
    /\ loc' = [loc EXCEPT ![t] = [NoLoc EXCEPT !.op = "access", !.key = k,
                                               !.blocking = blocking, !.clean = clean]]
    /\ UNCHANGED <<now, tracked, heap, recorded>>

\* access(blocking, clean) called on an instance bound to k
AccessBegin(t, k, blocking, clean, cap) ==
    /\ pc[t] = "idle"
    /\ IsTracked(k)
    /\ nacc < cap
    /\ nacc' = nacc + 1
    /\ pc' = [pc EXCEPT ![t] = IF blocking THEN "acc_check" ELSE AfterLoop(clean)]
    /\ loc' = [loc EXCEPT ![t] = [NoLoc EXCEPT !.op = "access", !.key = k,
                                               !.blocking = blocking, !.clean = clean]]
    /\ UNCHANGED <<now, tracked, heap, recorded>>

\* while not self.check():
AccCheck(t) ==
    /\ pc[t] = "acc_check"
    /\ pc' = [pc EXCEPT ![t] = IF check(loc[t].key) THEN AfterLoop(loc[t].clean)
                               ELSE "acc_sleep"]
    /\ UNCHANGED <<now, tracked, heap, loc, nacc, recorded>>

\* time.sleep(0.01)
AccSleep(t) ==
    /\ pc[t] = "acc_sleep"
    /\ pc' = [pc EXCEPT ![t] = "acc_check"]
    /\ UNCHANGED <<now, tracked, heap, loc, nacc, recorded>>

\* cleantimestamps() called on an instance bound to k
CleanBegin(t, k) ==
    /\ pc[t] = "idle"
    /\ IsTracked(k)
    /\ pc' = [pc EXCEPT ![t] = "cl_read"]
    /\ loc' = [loc EXCEPT ![t] = [NoLoc EXCEPT !.op = "clean", !.key = k]]
    /\ UNCHANGED <<now, tracked, heap, nacc, recorded>>

\* timestamps = ...['requestTimestamps']; maxdelta = ...['maxdelta']
CleanRead(t) ==
    /\ pc[t] = "cl_read"
    /\ LET lc == [loc EXCEPT ![t] = [@ EXCEPT !.ref = tracked[loc[t].key].requestTimestamps,
                                               !.maxdelta = tracked[loc[t].key].maxdelta]]
       IN  /\ loc' = lc
           /\ heap' = Collect(heap, tracked, lc)
    /\ pc' = [pc EXCEPT ![t] = "cl_filter"]
    /\ UNCHANGED <<now, tracked, nacc, recorded>>

\* timestamps = [ts for ts in timestamps if ...]: a new list object
CleanFilter(t) ==
    /\ pc[t] = "cl_filter"
    /\ LET id == FreshId
           kept == cleanfilter(heap[loc[t].ref], now, loc[t].maxdelta)
           lc == [loc EXCEPT ![t] = [@ EXCEPT !.ref = id, !.tnow = now]]
       IN  /\ loc' = lc
           /\ heap' = Collect([heap EXCEPT ![id] = kept], tracked, lc)
    /\ pc' = [pc EXCEPT ![t] = "cl_store"]
    /\ UNCHANGED <<now, tracked, nacc, recorded>>

\* _tracked_keys[self.key]['requestTimestamps'] = timestamps
CleanStore(t) ==
    /\ pc[t] = "cl_store"
    /\ LET tr == [tracked EXCEPT ![loc[t].key].requestTimestamps = loc[t].ref]
           lc == [loc EXCEPT ![t] = [@ EXCEPT !.ref = 0, !.maxdelta = 0, !.tnow = 0]]
       IN  /\ tracked' = tr
           /\ loc' = lc
           /\ heap' = Collect(heap, tr, lc)
    /\ pc' = [pc EXCEPT ![t] = IF loc[t].op = "access" THEN "acc_ref" ELSE "done"]
    /\ UNCHANGED <<now, nacc, recorded>>

\* _tracked_keys[self.key]['requestTimestamps'] evaluated: the list to append to
AccRef(t) ==
    /\ pc[t] = "acc_ref"
    /\ LET lc == [loc EXCEPT ![t] = [@ EXCEPT !.ref = tracked[loc[t].key].requestTimestamps]]
       IN  /\ loc' = lc
           /\ heap' = Collect(heap, tracked, lc)
    /\ pc' = [pc EXCEPT ![t] = "acc_now"]
    /\ UNCHANGED <<now, tracked, nacc, recorded>>

\* datetime.now() evaluated as the argument of append
AccNow(t) ==
    /\ pc[t] = "acc_now"
    /\ loc' = [loc EXCEPT ![t] = [@ EXCEPT !.tnow = now]]
    /\ pc' = [pc EXCEPT ![t] = "acc_append"]
    /\ UNCHANGED <<now, tracked, heap, nacc, recorded>>

\* access() appending to a private copy of the list
AccAppend_Copy(t) ==
    /\ pc[t] = "acc_append"
    /\ LET lc == [loc EXCEPT ![t] = [@ EXCEPT !.ref = 0]]
       IN  /\ loc' = lc
           /\ heap' = Collect(heap, tracked, lc)
    /\ recorded' = [recorded EXCEPT ![loc[t].key] = Append(@, loc[t].tnow)]
    /\ pc' = [pc EXCEPT ![t] = IF loc[t].get THEN "get_http" ELSE "done"]
    /\ UNCHANGED <<now, tracked, nacc>>

\* .append(...), after which access() returns
AccAppend(t) ==
    /\ pc[t] = "acc_append"
    /\ LET lc == [loc EXCEPT ![t] = [@ EXCEPT !.ref = 0]]
       IN  /\ loc' = lc
           /\ heap' = Collect([heap EXCEPT ![loc[t].ref] = Append(@, loc[t].tnow)],
                              tracked, lc)
    /\ recorded' = [recorded EXCEPT ![loc[t].key] = Append(@, loc[t].tnow)]
    /\ pc' = [pc EXCEPT ![t] = IF loc[t].get THEN "get_http" ELSE "done"]
    /\ UNCHANGED <<now, tracked, nacc>>

\* RiotAPISession.REGIONS
REGIONS == {"br", "eune", "euw", "kr", "lan", "las", "na", "oce", "ru", "tr"}

\* RiotAPISession(k, region): the region is looked up, then APIRateMeter(k)
SessionInit(t, k, region) ==
    IF region \in REGIONS
    THEN InitBegin(t, k, NoRates)
    ELSE /\ pc[t] = "idle"
         /\ pc' = [pc EXCEPT ![t] = "done"]
         /\ loc' = [loc EXCEPT ![t] = [NoLoc EXCEPT !.op = "session", !.key = k,
                                                    !.exc = "InvalidServerRegion"]]
         /\ UNCHANGED <<now, tracked, heap, nacc, recorded>>

\* get() calling access() whatever ratelimited is
GetBegin_AlwaysLimited(t, k, ratelimited, cap) ==
    /\ pc[t] = "idle"
    /\ IsTracked(k)
    /\ nacc < cap
    /\ nacc' = nacc + 1
    /\ pc' = [pc EXCEPT ![t] = "acc_check"]
    /\ loc' = [loc EXCEPT ![t] = [NoLoc EXCEPT !.op = "access", !.key = k,
                                   !.blocking = TRUE, !.clean = TRUE,
                                   !.get = TRUE, !.ratelimited = ratelimited,
                                   !.mark = Len(recorded[k])]]
    /\ UNCHANGED <<now, tracked, heap, recorded>>

\* get(endpoint, ratelimited=...) on a session whose key is k: with
\* ratelimited it calls self.ratemeter.access(), that is access(True, True)
GetBegin(t, k, ratelimited, cap) ==
    /\ pc[t] = "idle"
    /\ IsTracked(k)
    /\ IF ratelimited
       THEN /\ nacc < cap
            /\ nacc' = nacc + 1
            /\ pc' = [pc EXCEPT ![t] = "acc_check"]
            /\ loc' = [loc EXCEPT ![t] = [NoLoc EXCEPT !.op = "access", !.key = k,
                                           !.blocking = TRUE, !.clean = TRUE,
                                           !.get = TRUE, !.ratelimited = TRUE,
                                           !.mark = Len(recorded[k])]]
       ELSE /\ nacc' = nacc
            /\ pc' = [pc EXCEPT ![t] = "get_http"]
            /\ loc' = [loc EXCEPT ![t] = [NoLoc EXCEPT !.op = "get", !.key = k,
                                           !.get = TRUE,
                                           !.mark = Len(recorded[k])]]
    /\ UNCHANGED <<now, tracked, heap, recorded>>

\* super().get(url, params=params): the HTTP GET is issued, get() returns
GetHttp(t) ==
    /\ pc[t] = "get_http"
    /\ pc' = [pc EXCEPT ![t] = "done"]
    /\ loc' = [loc EXCEPT ![t] = [@ EXCEPT !.op = "get"]]
    /\ UNCHANGED <<now, tracked, heap, nacc, recorded>>

\* the call returns (or its exception reaches the caller)
Return(t) ==
    /\ pc[t] = "done"
    /\ pc' = [pc EXCEPT ![t] = "idle"]
    /\ loc' = [loc EXCEPT ![t] = NoLoc]
    /\ UNCHANGED <<now, tracked, heap, nacc, recorded>>

\* --------------------------------------------------------- inputs of calls
\* rates the constructor accepts
PlainRates == {<<Rate(1, 1)>>, <<Rate(2, 2)>>}
OddRates == {<<Rate(2, 1), Rate(1, 2)>>, <<Rate(0, 1)>>, <<Rate(-1, 1)>>,
             <<Rate(1, 0)>>, <<Rate(1, -1)>>}
\* rates the constructor refuses
RefusedRates == {<<StrLimit>>, <<IntWindow>>, <<OneTuple>>, <<EmptyTuple>>,
                 <<Rate(1, 1), OneTuple>>}
AllRates == {NoRates} \cup PlainRates \cup OddRates \cup RefusedRates

\* the steps inside a call in progress
Inner(t) ==
    \/ InitStore(t)
    \/ AccCheck(t)
    \/ AccSleep(t)
    \/ CleanRead(t)
    \/ CleanFilter(t)
    \/ CleanStore(t)
    \/ AccRef(t)
    \/ AccNow(t)
    \/ AccAppend(t)
    \/ Return(t)

\* a caller begins a call on key k, constructing with rates from R
Call(t, k, R, cap) ==
    \/ \E r \in R : InitBegin(t, k, r)
    \/ Check(t, k)
    \/ \E b \in BOOLEAN, c \in BOOLEAN : AccessBegin(t, k, b, c, cap)
    \/ CleanBegin(t, k)

\* concurrent callers sharing one key
Next ==
    \/ Tick(ConcMaxTime)
    \/ \E t \in Threads : Call(t, 1, {NoRates} \cup PlainRates, ConcMaxAccess) \/ Inner(t)

Spec == Init /\ [][Next]_vars

\* a single caller, every kind of rates
NextSeq ==
    \/ Tick(MaxTime)
    \/ \E t \in Threads : Call(t, 1, AllRates, MaxAccess) \/ Inner(t)

SpecSeq == InitSeq /\ [][NextSeq]_vars

\* a single caller whose accesses are all blocking and who never changes the
\* rules of a tracked key
NextBlocking ==
    \/ Tick(MaxTime)
    \/ \E t \in Threads :
        \/ \E r \in AllRates : ~IsTracked(1) /\ InitBegin(t, 1, r)
        \/ InitBegin(t, 1, NoRates)
        \/ Check(t, 1)
        \/ \E c \in BOOLEAN : AccessBegin(t, 1, TRUE, c, MaxAccess)
        \/ CleanBegin(t, 1)
        \/ Inner(t)

SpecBlocking == InitSeq /\ [][NextBlocking]_vars

\* a single caller on a clock that keeps advancing: a call in progress keeps
\* running (the thread is scheduled) and the clock keeps ticking
SpecLive ==
    /\ InitSeq
    /\ [][NextSeq]_vars
    /\ WF_vars(Tick(MaxTime))
    /\ \A t \in Threads : WF_vars(Inner(t))

\* a single caller of a meter constructed without rates, making non-blocking
\* accesses up to the short default limit while the clock runs through the
\* short default window
NextDefault ==
    \/ Tick(DefaultWindowShort)
    \/ \E t \in Threads :
        \/ InitBegin(t, 1, NoRates)
        \/ Check(t, 1)
        \/ AccessBegin(t, 1, FALSE, FALSE, DefaultLimitShort)
        \/ InitStore(t)
        \/ AccRef(t)
        \/ AccNow(t)
        \/ AccAppend(t)
        \/ Return(t)

SpecDefault == InitSeq /\ [][NextDefault]_vars

\* two instances bound to the same key, used in turn: caller 1 registers,
\* updates, accesses and cleans through its instance, caller 2 constructs its
\* own instance without rates and calls check() on it
NextShared ==
    \/ Tick(MaxTime)
    \/ pc[2] = "idle" /\ Call(1, 1, {NoRates} \cup PlainRates, MaxAccess)
    \/ pc[1] = "idle" /\ InitBegin(2, 1, NoRates)
    \/ pc[1] = "idle" /\ Check(2, 1)
    \/ \E t \in Threads : Inner(t)

SpecShared == Init /\ [][NextShared]_vars

\* a single caller of a session: it constructs sessions, sets rates on the
\* key's meter and issues requests
NextGet ==
    \/ Tick(MaxTime)
    \/ \E t \in Threads :
        \/ \E region \in {"na", "lan", "pbe"} : SessionInit(t, 1, region)
        \/ \E r \in PlainRates : InitBegin(t, 1, r)
        \/ \E rl \in BOOLEAN : GetBegin(t, 1, rl, MaxAccess)
        \/ GetHttp(t)
        \/ Inner(t)

SpecGet == InitSeq /\ [][NextGet]_vars

\* concurrent callers sharing one key, registered once by caller 1, whose
\* accesses are all access(blocking=True, clean=False): the race between
\* check() at line 60 and append at line 65, without the one of lines 71-73
NextRace ==
    \/ Tick(ConcMaxTime)
    \/ \E r \in PlainRates : ~IsTracked(1) /\ InitBegin(1, 1, r)
    \/ \E t \in Threads :
        \/ AccessBegin(t, 1, TRUE, FALSE, MaxAccess)
        \/ InitStore(t)
        \/ AccCheck(t)
        \/ AccSleep(t)
        \/ AccRef(t)
        \/ AccNow(t)
        \/ AccAppend(t)
        \/ Return(t)

SpecRace == Init /\ [][NextRace]_vars

\* the rates the callers of two keys construct with: none (the built-in
\* default) or one rule
KeyRates == {NoRates, <<Rate(1, 1)>>}

\* the key a caller holds
KeyOf(t) == ((t - 1) % NumKeys) + 1

\* concurrent callers, each calling on its own key
NextKeys ==
    \/ Tick(ConcMaxTime)
    \/ \E t \in Threads :
        \/ Call(t, KeyOf(t), KeyRates, MaxAccess)
        \/ Inner(t)

SpecKeys == Init /\ [][NextKeys]_vars

\* ------------------------------------------------- vocabulary of the claims
\* a rate rule as the data model has it: an integer limit >= 1 and a duration
\* window > 0
WellFormed(r) ==
    /\ r.shape = "pair"
    /\ r.t0 = "int" /\ r.limit >= 1
    /\ r.t1 = "timedelta" /\ r.window > 0

WellFormedSet(rates) == \A i \in 1..Len(rates) : WellFormed(rates[i])

\* the timestamp history of a tracked key
History(k) == heap[tracked[k].requestTimestamps]

\* how many entries of a history are younger than window w at instant t
InWindow(timestamps, t, w) ==
    Cardinality({i \in 1..Len(timestamps) : t - timestamps[i] < w})

\* some rule has used up its limit within its window
AtLimit(rules, timestamps, t) ==
    \E i \in 1..Len(rules) : InWindow(timestamps, t, rules[i].window) >= rules[i].limit

\* ------------------------------------------------------------------ claims
\* C1: with a single well-formed rule (L, W), a history of L accesses all
\* younger than W makes check() false, and once all L of them are at least W
\* old check() is true again.
C1_CheckRecoversAfterWindow ==
    \A k \in Keys :
        (/\ IsTracked(k)
         /\ Len(tracked[k].rules) = 1
         /\ WellFormedSet(tracked[k].rules)
         /\ Len(History(k)) = tracked[k].rules[1].limit)
        => LET W == tracked[k].rules[1].window
               h == History(k)
           IN  /\ (\A i \in 1..Len(h) : now - h[i] < W) => ~check(k)
               /\ (\A i \in 1..Len(h) : now - h[i] >= W) => check(k)

\* C2: for well-formed rules, check() is false exactly when some rule has at
\* least `limit` timestamps whose age now - timestamp is less than its window.
C2_CheckCountsByAge ==
    \A k \in Keys :
        (IsTracked(k) /\ WellFormedSet(tracked[k].rules))
        => (~check(k) <=> AtLimit(tracked[k].rules, History(k), now))

\* C6: a constructor call with non-empty rates raises InvalidRates exactly
\* when some element of the rates is not a well-formed pair.
C6_InvalidRatesIffMalformed ==
    \A t \in Threads :
        (pc[t] = "done" /\ loc[t].op = "init" /\ loc[t].rates # NoRates)
        => (loc[t].exc = "InvalidRates" <=> ~WellFormedSet(loc[t].rates))

\* C10: cleantimestamps() leaves exactly the timestamps whose age, at the
\* instant it filtered, does not exceed maxdelta, in their original order
\* (stated for well-formed rules).
C10_CleanKeepsExactlyRecent ==
    [][\A t \in Threads :
        (/\ pc[t] = "cl_store" /\ pc'[t] # "cl_store"
         /\ WellFormedSet(tracked[loc[t].key].rules))
        => LET k == loc[t].key
               at == loc[t].tnow
               md == tracked[k].maxdelta
           IN  heap'[tracked'[k].requestTimestamps]
                   = SelectSeq(History(k), LAMBDA ts : at - ts <= md)]_vars

\* C3: a blocking access() that waits at a limit of well-formed rules returns
\* once the clock has advanced (stated for histories old enough for the clock
\* of the model to outrun the largest window).
Waiting(t) ==
    /\ pc[t] \in {"acc_check", "acc_sleep"}
    /\ WellFormedSet(tracked[loc[t].key].rules)
    /\ \A i \in 1..Len(History(loc[t].key)) :
           History(loc[t].key)[i] + tracked[loc[t].key].maxdelta <= MaxTime

C3_BlockedAccessReturns ==
    \A t \in Threads : Waiting(t) ~> (pc[t] = "done")

\* C4: with a single caller making blocking accesses only, access() appends
\* only at an instant at which check() on the history before the append is
\* true, and no well-formed rule ever has more than `limit` timestamps of age
\* less than its window.
WithinLimits(k) ==
    \A i \in 1..Len(tracked[k].rules) :
        InWindow(History(k), now, tracked[k].rules[i].window) <= tracked[k].rules[i].limit

C4_BlockingRespectsLimits ==
    /\ [](\A k \in Keys :
            (IsTracked(k) /\ WellFormedSet(tracked[k].rules)) => WithinLimits(k))
    /\ [][\A t \in Threads :
            (/\ pc[t] = "acc_append" /\ pc'[t] = "done"
             /\ WellFormedSet(tracked[loc[t].key].rules))
            => check(loc[t].key)]_vars

\* a blocking access has returned and left a well-formed rule at its limit
C4_Witness ==
    \E t \in Threads :
        /\ pc[t] = "done" /\ loc[t].op = "access" /\ loc[t].blocking
        /\ WellFormedSet(tracked[loc[t].key].rules)
        /\ AtLimit(tracked[loc[t].key].rules, History(loc[t].key), now)

\* C5: no lost update: every timestamp appended by a completed access() whose
\* age does not exceed maxdelta is still in the key's history.
Count(timestamps, v) == Cardinality({i \in 1..Len(timestamps) : timestamps[i] = v})

C5_NoLostUpdate ==
    \A k \in Keys :
        IsTracked(k) =>
            \A v \in 0..MaxTime :
                (now - v <= tracked[k].maxdelta)
                => Count(History(k), v) >= Count(recorded[k], v)

\* C7: a constructor call that raises InvalidRates leaves the registry (the
\* entries and the histories they refer to) as it was.
C7_InvalidRatesLeavesRegistry ==
    [][\A t \in Threads :
        (pc[t] = "idle" /\ pc'[t] = "done" /\ loc'[t].exc = "InvalidRates")
        => /\ tracked' = tracked
           /\ \A k \in Keys : IsTracked(k) => heap'[tracked'[k].requestTimestamps] = History(k)]_vars

\* InvalidRates has been raised for a tracked key that has a history
C7_Witness ==
    \E t \in Threads :
        /\ pc[t] = "done" /\ loc[t].op = "init" /\ loc[t].exc = "InvalidRates"
        /\ IsTracked(loc[t].key)
        /\ Len(History(loc[t].key)) > 0

\* C8: re-registering a tracked key with valid rates keeps its history (same
\* entries, same order) and replaces rules and maxdelta by those of the new
\* rates alone, so that check() is the new rules applied to the old history.
C8_UpdateKeepsHistory ==
    [][\A t \in Threads :
        (pc[t] = "init_store" /\ pc'[t] = "done" /\ IsTracked(loc[t].key))
        => LET k == loc[t].key
               r == loc[t].rates
               h == heap'[tracked'[k].requestTimestamps]
           IN  /\ h = History(k)
               /\ tracked'[k].rules = r
               /\ \A i \in 1..Len(r) : r[i].window <= tracked'[k].maxdelta
               /\ \E i \in 1..Len(r) : r[i].window = tracked'[k].maxdelta
               /\ check(k)' = checkOn(r, History(k), now)]_vars

\* a tracked key with a history has been given new rules
C8_Witness ==
    \E t \in Threads :
        /\ pc[t] = "done" /\ loc[t].op = "init" /\ loc[t].exc = "none"
        /\ loc[t].rates # NoRates
        /\ tracked[loc[t].key].rules = loc[t].rates
        /\ Len(History(loc[t].key)) > 0

\* C9: constructing for a tracked key without rates changes nothing: rules,
\* maxdelta and history stay, and the call stores no entry.
C9_NoRatesNoMutation ==
    [][\A t \in Threads :
        (/\ loc'[t].op = "init" /\ loc'[t].rates = NoRates
         /\ IsTracked(loc'[t].key))
        => /\ tracked' = tracked
           /\ heap' = heap
           /\ pc'[t] = "done"
           /\ loc'[t].exc = "none"]_vars

\* a tracked key with rules other than the default and with a history has
\* been constructed again without rates
C9_Witness ==
    \E t \in Threads :
        /\ pc[t] = "done" /\ loc[t].op = "init" /\ loc[t].rates = NoRates
        /\ IsTracked(loc[t].key)
        /\ tracked[loc[t].key].rules # default_rate
        /\ Len(History(loc[t].key)) > 0

\* C13: under concurrent callers and a clock that never goes back, the
\* history of every key is in non-decreasing time order.
C13_HistoryInTimeOrder ==
    \A k \in Keys :
        IsTracked(k) =>
            \A i \in 1..Len(History(k)), j \in 1..Len(History(k)) :
                i < j => History(k)[i] <= History(k)[j]

\* C14: right after a new key is registered with well-formed rules its
\* history is empty and check() is true.
C14_CheckTrueAfterConstruction ==
    [][\A t \in Threads :
        (/\ pc[t] = "init_store" /\ pc'[t] = "done"
         /\ ~IsTracked(loc[t].key)
         /\ WellFormedSet(tracked'[loc[t].key].rules))
        => /\ History(loc[t].key)' = <<>>
           /\ check(loc[t].key)']_vars

\* a constructor call with well-formed rates has returned, the history is
\* empty and check() is true
C14_Witness ==
    \E t \in Threads :
        /\ pc[t] = "done" /\ loc[t].op = "init" /\ loc[t].exc = "none"
        /\ loc[t].rates # NoRates /\ WellFormedSet(loc[t].rates)
        /\ tracked[loc[t].key].rules = loc[t].rates
        /\ History(loc[t].key) = <<>>
        /\ check(loc[t].key)

\* C15: cleantimestamps() is idempotent: cleaning the history it has just
\* stored once more, at the same instant, gives that same history.
C15_CleanIdempotent ==
    [][\A t \in Threads :
        (pc[t] = "cl_store" /\ pc'[t] # "cl_store")
        => cleanfilter(History(loc[t].key)', loc[t].tnow, loc[t].maxdelta)
               = History(loc[t].key)']_vars

\* a cleantimestamps() call has returned after removing some timestamps and
\* keeping others
C15_Witness ==
    \E t \in Threads :
        /\ pc[t] = "done" /\ loc[t].op = "clean"
        /\ Len(History(loc[t].key)) > 0
        /\ Len(History(loc[t].key)) < Len(recorded[loc[t].key])

\* C18: a non-blocking access() never waits; every access() reads the clock
\* and appends that one timestamp to the history as its last step, whatever
\* check() says; nothing but that append makes a history longer.
C18_AccessAlwaysRecords ==
    /\ [](\A t \in Threads : pc[t] \in {"acc_check", "acc_sleep"} => loc[t].blocking)
    /\ [][\A t \in Threads :
            /\ (pc[t] = "acc_now" /\ pc'[t] = "acc_append") => loc'[t].tnow = now
            /\ (pc[t] = "acc_append" /\ pc'[t] # "acc_append")
               => History(loc[t].key)' = Append(History(loc[t].key), loc[t].tnow)
            /\ (pc[t] # "done" /\ pc'[t] = "done" /\ loc'[t].op = "access")
               => pc[t] = "acc_append"]_vars
    /\ [][\A k \in Keys :
            (IsTracked(k) /\ Len(History(k)') > Len(History(k)))
            => \E t \in Threads :
                   /\ pc[t] = "acc_append" /\ pc'[t] # "acc_append"
                   /\ loc[t].key = k]_vars

\* a non-blocking access() has returned with a well-formed rule above its limit
C18_Witness ==
    \E t \in Threads :
        /\ pc[t] = "done" /\ loc[t].op = "access" /\ ~loc[t].blocking
        /\ WellFormedSet(tracked[loc[t].key].rules)
        /\ \E i \in 1..Len(tracked[loc[t].key].rules) :
               InWindow(History(loc[t].key), now, tracked[loc[t].key].rules[i].window)
                   > tracked[loc[t].key].rules[i].limit

\* C19: maxdelta is the largest window of the rules of every tracked key, and
\* cleantimestamps() does not change what check() answers at the instant it
\* filtered.
C19_CleanKeepsCheck ==
    /\ [](\A k \in Keys :
            IsTracked(k) =>
                /\ \A i \in 1..Len(tracked[k].rules) :
                       tracked[k].rules[i].window <= tracked[k].maxdelta
                /\ \E i \in 1..Len(tracked[k].rules) :
                       tracked[k].rules[i].window = tracked[k].maxdelta)
    /\ [][\A t \in Threads :
            (pc[t] = "cl_store" /\ pc'[t] # "cl_store")
            => checkOn(tracked'[loc[t].key].rules, History(loc[t].key)', loc[t].tnow)
                   = checkOn(tracked[loc[t].key].rules, History(loc[t].key), loc[t].tnow)]_vars

\* a cleantimestamps() call has returned on a key with several rules whose
\* check() is false
C19_Witness ==
    \E t \in Threads :
        /\ pc[t] = "done" /\ loc[t].op = "clean"
        /\ Len(tracked[loc[t].key].rules) > 1
        /\ Len(History(loc[t].key)) > 0
        /\ ~check(loc[t].key)

\* C11: with the default rules, fewer accesses than the short limit leave
\* check() true, as many accesses all younger than the short window make it
\* false, and once they are all at least that old check() is true again.
C11_DefaultPolicy ==
    \A k \in Keys :
        (IsTracked(k) /\ tracked[k].rules = default_rate)
        => LET h == History(k)
           IN  /\ Len(h) < DefaultLimitShort => check(k)
               /\ (/\ Len(h) = DefaultLimitShort
                   /\ \A i \in 1..Len(h) : now - h[i] < DefaultWindowShort)
                  => ~check(k)
               /\ (/\ Len(h) = DefaultLimitShort
                   /\ \A i \in 1..Len(h) : now - h[i] >= DefaultWindowShort)
                  => check(k)

\* C12: instances bound to the same key share one state: check() on the
\* instance of caller 2 is decided by the rules last registered and by every
\* access recorded through the instance of caller 1.
C12_InstancesShareState ==
    [][(pc[2] = "idle" /\ pc'[2] = "done" /\ loc'[2].op = "check")
        => loc'[2].ret = checkOn(tracked[loc'[2].key].rules,
                                 recorded[loc'[2].key], now)]_vars

\* check() on the instance of caller 2 has answered false because of the
\* accesses made through the instance of caller 1
C12_Witness ==
    /\ pc[2] = "done" /\ loc[2].op = "check" /\ ~loc[2].ret
    /\ Len(recorded[loc[2].key]) > 0
    /\ WellFormedSet(tracked[loc[2].key].rules)

\* C16: when the HTTP GET of a rate-limited request is issued, access() has
\* completed exactly once for that request; a request that opts out goes
\* straight to the GET, never waits and records no timestamp; the GET itself
\* records nothing.
C16_GetAccessesOnce ==
    /\ [](\A t \in Threads :
            (loc[t].get /\ ~loc[t].ratelimited) => pc[t] \in {"get_http", "done"})
    /\ [][\A t \in Threads :
            (pc[t] = "get_http" /\ pc'[t] = "done")
            => /\ recorded' = recorded
               /\ Len(recorded[loc[t].key])
                      = loc[t].mark + (IF loc[t].ratelimited THEN 1 ELSE 0)]_vars

\* a rate-limited request has been issued after its one access was recorded
C16_Witness ==
    \E t \in Threads :
        /\ pc[t] = "done" /\ loc[t].op = "get" /\ loc[t].ratelimited
        /\ Len(recorded[loc[t].key]) = loc[t].mark + 1
        /\ loc[t].mark > 0

\* C17: concurrent blocking accesses are not a hard gate: callers that all
\* passed check() before any of them appended take a rule above its limit
\* (the witness), by at most one timestamp per further caller when no
\* caller cleans.
C17_OvershootByConcurrentCallers ==
    \A k \in Keys :
        (IsTracked(k) /\ WellFormedSet(tracked[k].rules))
        => \A i \in 1..Len(tracked[k].rules) :
               InWindow(History(k), now, tracked[k].rules[i].window)
                   <= tracked[k].rules[i].limit + (NumThreads - 1)

\* two blocking accesses have returned and a rule has limit + 1 timestamps
\* younger than its window
C17_Witness ==
    /\ \E t \in Threads, u \in Threads :
           /\ t # u
           /\ pc[t] = "done" /\ loc[t].op = "access" /\ loc[t].blocking
           /\ pc[u] = "done" /\ loc[u].op = "access" /\ loc[u].blocking
    /\ WellFormedSet(tracked[1].rules)
    /\ \E i \in 1..Len(tracked[1].rules) :
           InWindow(History(1), now, tracked[1].rules[i].window)
               = tracked[1].rules[i].limit + 1

\* the timestamp history of a key, empty while the key is not registered
HistoryOrNone(k) == IF IsTracked(k) THEN History(k) ELSE <<>>

\* the caller whose step this is
Acting(t) == pc'[t] # pc[t] \/ loc'[t] # loc[t]

\* C20: credentials are isolated: two registered keys never share a
\* timestamp list; the rules, maxdelta and history of a key change only in a
\* step of a call made on that key; and a blocking access waits, or goes on,
\* by check() of its own key alone, whatever callers on other keys do.
C20_KeysIsolated ==
    /\ [](\A k \in Keys, j \in Keys :
            (k # j /\ IsTracked(k) /\ IsTracked(j))
            => tracked[k].requestTimestamps # tracked[j].requestTimestamps)
    /\ [][\A k \in Keys :
            (tracked'[k] # tracked[k] \/ HistoryOrNone(k)' # HistoryOrNone(k))
            => \E t \in Threads : Acting(t) /\ loc[t].key = k]_vars
    /\ [][\A t \in Threads :
            (pc[t] = "acc_check" /\ Acting(t))
            => pc'[t] = IF check(loc[t].key) THEN AfterLoop(loc[t].clean)
                        ELSE "acc_sleep"]_vars
    /\ [](\A t \in Threads : pc[t] = "acc_check" => ENABLED AccCheck(t))

\* a caller waits in a blocking access on its key, at that key's limit, and
\* another caller's access on the other key has been recorded and returned
C20_Witness ==
    \E t \in Threads, u \in Threads :
        /\ pc[t] = "acc_sleep"
        /\ pc[u] = "done" /\ loc[u].op = "access"
        /\ loc[u].key # loc[t].key
        /\ IsTracked(loc[u].key)
        /\ Len(History(loc[u].key)) = 1
        /\ Len(History(loc[t].key)) = 1

====
